---- MODULE Spec2Model ----
(***************************************************************************)
(* Model of funVoronoiUniform (src/funVoronoiUniform.py) and of the three  *)
(* ways the repository calls it.  Real numbers are exact rationals <<n,d>> *)
(* with d > 0 in lowest terms; <<0,0>> is NaN and <<1,0>> is +inf, the two *)
(* values a NumPy division by zero produces.  Python indices are kept      *)
(* 0-based; a TLA+ sequence s holds Python's s[k] at s[k+1].               *)
(***************************************************************************)
EXTENDS Integers, Sequences, FiniteSets

\* ------------------------------------------------------------------------
\* Bounds of the model
\* ------------------------------------------------------------------------
MaxCells == 2

\* ------------------------------------------------------------------------
\* Float arithmetic as exact rationals
\* ------------------------------------------------------------------------
AbsInt(i) == IF i < 0 THEN -i ELSE i

Gcd[a \in Nat, b \in Nat] == IF b = 0 THEN a ELSE Gcd[b, a % b]

\* n/d in lowest terms with a positive denominator (d # 0)
Rat[n \in Int, d \in Int] ==
    LET g == Gcd[AbsInt(n), AbsInt(d)]
        s == IF d < 0 THEN -1 ELSE 1
    IN  <<(s * n) \div g, (s * d) \div g>>

Q == Int \X Int
Zero == <<0, 1>>
One == <<1, 1>>
NaN == <<0, 0>>
Inf == <<1, 0>>

RAdd[a \in Q, b \in Q] == Rat[a[1] * b[2] + b[1] * a[2], a[2] * b[2]]
RSub[a \in Q, b \in Q] == Rat[a[1] * b[2] - b[1] * a[2], a[2] * b[2]]
RMul[a \in Q, b \in Q] == Rat[a[1] * b[1], a[2] * b[2]]
RAbs[a \in Q] == <<AbsInt(a[1]), a[2]>>
RHalf[a \in Q] == Rat[a[1], 2 * a[2]]

\* a / b as NumPy computes it: 0/0 is nan, x/0 is inf, no exception
FDiv[a \in Q, b \in Q] ==
    IF b[1] = 0
    THEN IF a[1] = 0 THEN NaN ELSE Inf
    ELSE Rat[a[1] * b[2], a[2] * b[1]]

\* a <= b as NumPy computes it: every comparison with nan is False
FLeq[a \in Q, b \in Q] ==
    IF a = NaN \/ b = NaN THEN FALSE ELSE a[1] * b[2] <= b[1] * a[2]

\* np.sqrt on the rationals whose numerator and denominator are squares
ISqrt[n \in Nat] == CHOOSE s \in 0..n : s * s = n
RSqrt[a \in Q] == <<ISqrt[a[1]], ISqrt[a[2]]>>

\* sum(...) and np.cumsum(...): left-to-right accumulation
SumTo[s \in Seq(Q), k \in Nat] ==
    IF k = 0 THEN Zero ELSE RAdd[SumTo[s, k - 1], s[k]]

SumSeq(s) == SumTo[s, Len(s)]

CumSum(s) == [k \in 1..Len(s) |-> SumTo[s, k]]

\* ------------------------------------------------------------------------
\* The tessellation data handed to the function
\* ------------------------------------------------------------------------
\* voronoiData.vertices: Python index k is VertexAll[k+1]
VertexAll ==
    << <<Zero, Zero>>, <<One, Zero>>, <<One, One>>, <<Zero, One>>,
       <<<<2, 1>>, Zero>> >>

\* voronoiData.regions: Python index k is CellAll[k+1]; -1 marks a vertex
\* at infinity; the empty region is the one SciPy keeps in the list
CellAll ==
    << <<0, 1, 2, 3>>,
       <<>>,
       <<3, 2, 1, 0>>,
       <<-1, 0, 1>>,
       <<0, 1, 4>> >>

\* coordinates the generating points are drawn from
XVals == { <<1, 2>> }
YVals == { <<1, 2>>, Zero }

\* values the random source can return (all in [0,1))
TriDraws == { Zero, <<3, 10>>, <<9, 10>> }
Uni1Draws == { <<1, 4>> }
Uni2Draws == { Zero, <<1, 2>> }

\* the three call sites: the definition's own parameter order, the
\* simulation loop of the test script, and the header's usage example
CallForms == {"signature", "harness", "header"}

\* the positional arguments of each call site, by the type of object passed
Args(form) ==
    CASE form = "signature" -> <<"Voronoi", "ndarray", "ndarray">>
      [] form = "harness" -> <<"Voronoi">>
      [] form = "header" -> <<"ndarray", "ndarray", "Voronoi">>

\* def funVoronoiUniform(voronoiData,xx,yy): no parameter has a default
Params == <<"voronoiData", "xx", "yy">>

\* the exception, if any, raised between the call and the start of the loop
CallError(args) ==
    IF Len(args) # Len(Params) THEN "TypeError"
    ELSE IF args[2] # "ndarray" \/ args[3] # "ndarray" THEN "AttributeError"
    ELSE IF args[1] # "Voronoi" THEN "AttributeError"
    ELSE "none"

\* ------------------------------------------------------------------------
\* The steps of one loop iteration, as operators
\* ------------------------------------------------------------------------
\* the region looked up with the point index itself
RingDirect(p2c, i) == CellAll[i + 1]

\* cellAll[indexP2C[ii]]
Ring(p2c, i) == CellAll[p2c[i + 1] + 1]

\* not(any(np.array(ring)==-1))
IsBounded(ring) == ~ \E k \in 1..Len(ring) : ring[k] = -1

\* vertexAll[ring,0] and vertexAll[ring,1]
XCell(ring) == [k \in 1..Len(ring) |-> VertexAll[ring[k] + 1][1]]
YCell(ring) == [k \in 1..Len(ring) |-> VertexAll[ring[k] + 1][2]]

\* indexVertex: 0,1,...,numbTri-1,0
IndexVertex(numbTri) ==
    [k \in 1..(numbTri + 1) |-> IF k = numbTri + 1 THEN 0 ELSE k - 1]

\* the same expression without abs
TriAreaSigned(x0, y0, x1, y1, x2, y2) ==
    RHalf[RSub[RMul[RSub[x1, x0], RSub[y2, y0]],
               RMul[RSub[x2, x0], RSub[y1, y0]]]]

\* |(x1-x0)*(y2-y0)-(x2-x0)*(y1-y0)|/2
TriArea(x0, y0, x1, y1, x2, y2) ==
    RHalf[RAbs[RSub[RMul[RSub[x1, x0], RSub[y2, y0]],
                    RMul[RSub[x2, x0], RSub[y1, y0]]]]]

\* areaTri of a cell with apex (x0,y0)
AreaTri(xxCell, yyCell, x0, y0) ==
    LET numbTri == Len(xxCell)
        iv == IndexVertex(numbTri)
    IN  [k \in 1..numbTri |->
            TriArea(x0, y0, xxCell[iv[k] + 1], yyCell[iv[k] + 1],
                    xxCell[iv[k + 1] + 1], yyCell[iv[k + 1] + 1])]

\* cdfArea=np.cumsum(areaTri)/areaPoly
CdfArea(area) ==
    LET areaPoly == SumSeq(area)
        cs == CumSum(area)
    IN  [k \in 1..Len(area) |-> FDiv[cs[k], areaPoly]]

\* (...).argmax() of a non-empty boolean array: the first True, 0 if none
ArgMax(b) ==
    IF \E k \in 1..Len(b) : b[k]
    THEN (CHOOSE k \in 1..Len(b) : b[k] /\ \A j \in 1..(k - 1) : ~b[j]) - 1
    ELSE 0

\* the selection with < in place of <=
SelectTriStrict(r, cdf) ==
    ArgMax([k \in 1..Len(cdf) |-> FLeq[r, cdf[k]] /\ r # cdf[k]])

\* indexTri=(np.random.rand() <= cdfArea).argmax()
SelectTri(r, cdf) == ArgMax([k \in 1..Len(cdf) |-> FLeq[r, cdf[k]]])

\* the same combination with u1 in place of sqrt(u1)
TriPointLinear(t0, t1, t2, u1, u2) ==
    RAdd[RAdd[RMul[RSub[One, u1], t0],
              RMul[RMul[u1, RSub[One, u2]], t1]],
         RMul[RMul[u1, u2], t2]]

\* (1-sqrt(u1))*t0 + sqrt(u1)*(1-u2)*t1 + sqrt(u1)*u2*t2
TriPoint(t0, t1, t2, u1, u2) ==
    RAdd[RAdd[RMul[RSub[One, RSqrt[u1]], t0],
              RMul[RMul[RSqrt[u1], RSub[One, u2]], t1]],
         RMul[RMul[RSqrt[u1], u2], t2]]

\* np.arange(numbCells) without the mask
CompactAll(b, n) == [k \in 1..n |-> k - 1]

\* np.arange(numbCells)[booleBounded], 0-based point indices
Compact(b, n) ==
    SelectSeq([k \in 1..n |-> k - 1], LAMBDA i : b[i + 1])

\* the calls of np.random.rand() made for one sampled cell, in program order
CellDraws(i) == << <<i, "tri">>, <<i, "uni1">>, <<i, "uni2">> >>

\* uu[indexBounded]
Take(a, idx) == [k \in 1..Len(idx) |-> a[idx[k] + 1]]

\* ------------------------------------------------------------------------
\* State
\* ------------------------------------------------------------------------
VARIABLES
    callForm,      \* which call site made the call
    indexP2C,      \* voronoiData.point_region (0-based region indices)
    xx, yy,        \* coordinates of the generating points
    pc,            \* "call", "loop", "done", "error"
    err,           \* the exception that ended the call, "none" otherwise
    numbCells, ii, \* len(xx) and the loop index
    booleBounded, uu, vv,      \* the three work arrays
    areaTri, cdfArea,          \* locals of the last cell that reached line 102
    rTri, indexTri,            \* the selection draw and the selected triangle
    uniRand1, uniRand2,        \* the two barycentric draws
    lastCell,      \* ii of the last cell whose point was recorded, -1 if none
    drawLog,       \* the calls of np.random.rand(), as <<ii, purpose>>
    indexBounded, uuOut, vvOut \* the returned triple

vars == <<callForm, indexP2C, xx, yy, pc, err, numbCells, ii, booleBounded,
          uu, vv, areaTri, cdfArea, rTri, indexTri, uniRand1, uniRand2,
          lastCell, drawLog, indexBounded, uuOut, vvOut>>

inputs == <<callForm, indexP2C, xx, yy>>
locals == <<areaTri, cdfArea, rTri, indexTri, uniRand1, uniRand2, lastCell>>
outputs == <<indexBounded, uuOut, vvOut>>

SeqsUpTo(S, n) == UNION {[1..m -> S] : m \in 0..n}

Init ==
    /\ callForm \in CallForms
    /\ indexP2C \in SeqsUpTo(0..(Len(CellAll) - 1), MaxCells)
    /\ xx \in SeqsUpTo(XVals, MaxCells)
    /\ yy \in SeqsUpTo(YVals, MaxCells)
    /\ pc = "call"
    /\ err = "none"
    /\ numbCells = 0
    /\ ii = 0
    /\ booleBounded = <<>>
    /\ uu = <<>>
    /\ vv = <<>>
    /\ areaTri = <<>>
    /\ cdfArea = <<>>
    /\ rTri = Zero
    /\ indexTri = 0
    /\ uniRand1 = Zero
    /\ uniRand2 = Zero
    /\ lastCell = -1
    /\ drawLog = <<>>
    /\ indexBounded = <<>>
    /\ uuOut = <<>>
    /\ vvOut = <<>>

Fail(e) ==
    /\ pc' = "error"
    /\ err' = e

\* lines 53-67: argument binding, flatten, attribute reads, work arrays
Call ==
    /\ pc = "call"
    /\ LET e == CallError(Args(callForm))
       IN  IF e # "none"
           THEN /\ Fail(e)
                /\ UNCHANGED <<numbCells, ii, booleBounded, uu, vv>>
           ELSE /\ pc' = "loop"
                /\ err' = "none"
                /\ numbCells' = Len(xx)
                /\ ii' = 0
                /\ booleBounded' = [k \in 1..Len(xx) |-> FALSE]
                /\ uu' = [k \in 1..Len(xx) |-> Zero]
                /\ vv' = [k \in 1..Len(xx) |-> Zero]
    /\ UNCHANGED <<inputs, locals, drawLog, outputs>>

InLoop == pc = "loop" /\ ii < numbCells

\* line 71: indexP2C[ii] with ii past the end of point_region
CellLookupError ==
    /\ InLoop
    /\ ii >= Len(indexP2C)
    /\ Fail("IndexError")
    /\ UNCHANGED <<inputs, numbCells, ii, booleBounded, uu, vv, locals,
                   drawLog, outputs>>

\* lines 71, 76: a ring with a -1 is skipped
CellUnbounded ==
    /\ InLoop
    /\ ii < Len(indexP2C)
    /\ ~IsBounded(Ring(indexP2C, ii))
    /\ booleBounded' = [booleBounded EXCEPT ![ii + 1] = FALSE]
    /\ ii' = ii + 1
    /\ UNCHANGED <<inputs, pc, err, numbCells, uu, vv, locals, drawLog,
                   outputs>>

\* line 77: yy[ii] with ii past the end of yy
CellCoordError ==
    /\ InLoop
    /\ ii < Len(indexP2C)
    /\ IsBounded(Ring(indexP2C, ii))
    /\ ii >= Len(yy)
    /\ booleBounded' = [booleBounded EXCEPT ![ii + 1] = TRUE]
    /\ Fail("IndexError")
    /\ UNCHANGED <<inputs, numbCells, ii, uu, vv, locals, drawLog, outputs>>

\* lines 77-103 on a ring without vertices: argmax of an empty array
CellEmptyRing ==
    /\ InLoop
    /\ ii < Len(indexP2C)
    /\ IsBounded(Ring(indexP2C, ii))
    /\ ii < Len(yy)
    /\ Ring(indexP2C, ii) = <<>>
    /\ booleBounded' = [booleBounded EXCEPT ![ii + 1] = TRUE]
    /\ areaTri' = <<>>
    /\ cdfArea' = <<>>
    /\ \E r \in TriDraws : rTri' = r
    /\ drawLog' = Append(drawLog, CellDraws(ii)[1])
    /\ Fail("ValueError")
    /\ UNCHANGED <<inputs, numbCells, ii, uu, vv, indexTri, uniRand1,
                   uniRand2, lastCell, outputs>>

\* lines 77-121: one point is placed in the cell of point ii
CellSample ==
    /\ InLoop
    /\ ii < Len(indexP2C)
    /\ IsBounded(Ring(indexP2C, ii))
    /\ ii < Len(yy)
    /\ Ring(indexP2C, ii) # <<>>
    /\ LET ring == Ring(indexP2C, ii)
           xx0 == xx[ii + 1]
           yy0 == yy[ii + 1]
           xxCell == XCell(ring)
           yyCell == YCell(ring)
           iv == IndexVertex(Len(xxCell))
           area == AreaTri(xxCell, yyCell, xx0, yy0)
           cdf == CdfArea(area)
       IN  /\ areaTri' = area
           /\ cdfArea' = cdf
           /\ \E r \in TriDraws :
                LET k == SelectTri(r, cdf)
                    v1 == iv[k + 1]
                    v2 == iv[k + 2]
                IN  /\ rTri' = r
                    /\ indexTri' = k
                    /\ \E u1 \in Uni1Draws, u2 \in Uni2Draws :
                         /\ uniRand1' = u1
                         /\ uniRand2' = u2
                         /\ uu' = [uu EXCEPT ![ii + 1] =
                                     TriPoint(xx0, xxCell[v1 + 1],
                                              xxCell[v2 + 1], u1, u2)]
                         /\ vv' = [vv EXCEPT ![ii + 1] =
                                     TriPoint(yy0, yyCell[v1 + 1],
                                              yyCell[v2 + 1], u1, u2)]
    /\ booleBounded' = [booleBounded EXCEPT ![ii + 1] = TRUE]
    /\ drawLog' = drawLog \o CellDraws(ii)
    /\ lastCell' = ii
    /\ ii' = ii + 1
    /\ UNCHANGED <<inputs, pc, err, numbCells, outputs>>

\* lines 126-128: compaction to the bounded cells and return
Return ==
    /\ pc = "loop"
    /\ ii = numbCells
    /\ LET idx == Compact(booleBounded, numbCells)
       IN  /\ indexBounded' = idx
           /\ uuOut' = Take(uu, idx)
           /\ vvOut' = Take(vv, idx)
    /\ pc' = "done"
    /\ UNCHANGED <<inputs, err, numbCells, ii, booleBounded, uu, vv, locals,
                   drawLog>>

Next ==
    \/ Call
    \/ CellLookupError
    \/ CellUnbounded
    \/ CellCoordError
    \/ CellEmptyRing
    \/ CellSample
    \/ Return

Spec == Init /\ [][Next]_vars

\* ------------------------------------------------------------------------
\* The harness's area formula and plane geometry used by the properties
\* ------------------------------------------------------------------------
\* areaPoly of funCentroid: sum(x[i]*y[i+1]-x[i+1]*y[i])/2, ring closed
Shoelace(x, y) ==
    LET m == Len(x)
        nxt(k) == IF k = m THEN 1 ELSE k + 1
    IN  RHalf[SumSeq([k \in 1..m |->
                 RSub[RMul[x[k], y[nxt(k)]], RMul[x[nxt(k)], y[k]]]])]

\* (a-o) x (b-o) for points <<x, y>>
Cross(o, a, b) ==
    RSub[RMul[RSub[a[1], o[1]], RSub[b[2], o[2]]],
         RMul[RSub[b[1], o[1]], RSub[a[2], o[2]]]]

Pts(ring) == [k \in 1..Len(ring) |-> VertexAll[ring[k] + 1]]
Succ(k, m) == IF k = m THEN 1 ELSE k + 1

\* p is in the closed convex polygon v: on one side of every edge
InClosedPolygon(p, v) ==
    LET m == Len(v)
    IN  \/ \A k \in 1..m : Cross(v[k], v[Succ(k, m)], p)[1] >= 0
        \/ \A k \in 1..m : Cross(v[k], v[Succ(k, m)], p)[1] <= 0

\* v is a strictly convex polygon: every corner turns the same way
StrictlyConvex(v) ==
    LET m == Len(v)
    IN  /\ m >= 3
        /\ \/ \A k \in 1..m : Cross(v[k], v[Succ(k, m)], v[Succ(Succ(k, m), m)])[1] > 0
           \/ \A k \in 1..m : Cross(v[k], v[Succ(k, m)], v[Succ(Succ(k, m), m)])[1] < 0

\* the ring and the generating point of point i
RingOf(i) == CellAll[indexP2C[i + 1] + 1]
Apex(i) == <<xx[i + 1], yy[i + 1]>>

\* the locals describe the cell of lastCell
Sampled == pc \in {"loop", "done"} /\ lastCell >= 0

\* a Voronoi-like cell: strictly convex ring around its generating point
ValidCell(i) ==
    /\ StrictlyConvex(Pts(RingOf(i)))
    /\ InClosedPolygon(Apex(i), Pts(RingOf(i)))

\* ------------------------------------------------------------------------
\* Properties
\* ------------------------------------------------------------------------
Positions(q) == 1..Len(q)

\* C1: a returned triple has three equal lengths; indexBounded holds, in
\* strictly ascending order, exactly the points whose ring the classifier
\* found bounded; uu[k], vv[k] are the values recorded for point
\* indexBounded[k]; a call in which no cell is bounded raises nothing and
\* returns three empty results.
C1_ResultShape ==
    /\ pc = "done" =>
         /\ Len(uuOut) = Len(indexBounded)
         /\ Len(vvOut) = Len(indexBounded)
         /\ \A k \in Positions(indexBounded) :
              /\ indexBounded[k] \in 0..(numbCells - 1)
              /\ k > 1 => indexBounded[k - 1] < indexBounded[k]
              /\ uuOut[k] = uu[indexBounded[k] + 1]
              /\ vvOut[k] = vv[indexBounded[k] + 1]
         /\ \A i \in 0..(numbCells - 1) :
              (\E k \in Positions(indexBounded) : indexBounded[k] = i)
                <=> ~(\E j \in Positions(RingOf(i)) : RingOf(i)[j] = -1)
    /\ ( /\ callForm = "signature"
         /\ Len(xx) <= Len(indexP2C)
         /\ \A i \in 0..(Len(xx) - 1) : -1 \in {RingOf(i)[j] : j \in Positions(RingOf(i))} )
       => /\ pc # "error"
          /\ pc = "done" => indexBounded = <<>> /\ uuOut = <<>> /\ vvOut = <<>>

\* a call over two points that returned the second one only
C1_Witness ==
    /\ pc = "done"
    /\ numbCells = 2
    /\ indexBounded = <<1>>

\* C2 (as claimed): a point whose region is the empty list is not marked
\* bounded and the call does not fail on it.
C2_EmptyRingSkipped ==
    \A i \in 0..(numbCells - 1) :
        (i < Len(indexP2C) /\ RingOf(i) = <<>>)
          => /\ ~booleBounded[i + 1]
             /\ ~(pc = "error" /\ ii = i)

\* the calls of np.random.rand() made for point i, in the order made
DrawsOf(i) == SelectSeq(drawLog, LAMBDA d : d[1] = i)

\* C3 (as claimed): the draws are made in ascending point order; a cell has
\* consumed either nothing or exactly the selection draw followed by the two
\* barycentric draws; a processed cell has consumed the three draws if its
\* ring is bounded and none otherwise; a returned call has made
\* 3 * len(indexBounded) draws.
C3_ThreeDrawsPerBoundedCell ==
    /\ \A k \in 1..(Len(drawLog) - 1) : drawLog[k][1] <= drawLog[k + 1][1]
    /\ \A i \in 0..(numbCells - 1) :
         \/ DrawsOf(i) = <<>>
         \/ DrawsOf(i) = << <<i, "tri">>, <<i, "uni1">>, <<i, "uni2">> >>
    /\ \A i \in 0..(ii - 1) :
         (DrawsOf(i) # <<>>)
           <=> ~(\E j \in Positions(RingOf(i)) : RingOf(i)[j] = -1)
    /\ pc = "done" => Len(drawLog) = 3 * Len(indexBounded)

\* C4: the point recorded for point i is (1-s)*A + s*(1-r2)*B + s*r2*C with
\* s = sqrt(r1), A the generating point i, and B, C the ring vertices k and
\* k+1 mod m of the ring regions[point_region[i]]; the weights are
\* non-negative and sum to 1; the point is in the closed triangle A,B,C and,
\* when the ring is a convex polygon around A, in that closed polygon.
C4_PointInOwnCell ==
    Sampled =>
      LET i == lastCell
          ring == CellAll[indexP2C[lastCell + 1] + 1]
          m == Len(ring)
          k == indexTri
      IN  /\ k \in 0..(m - 1)
          /\ LET a == Apex(i)
                 b == VertexAll[ring[k + 1] + 1]
                 c == VertexAll[ring[((k + 1) % m) + 1] + 1]
                 s == RSqrt[uniRand1]
                 w0 == RSub[One, s]
                 w1 == RMul[s, RSub[One, uniRand2]]
                 w2 == RMul[s, uniRand2]
                 p == <<uu[i + 1], vv[i + 1]>>
             IN  /\ w0[1] >= 0 /\ w1[1] >= 0 /\ w2[1] >= 0
                 /\ RAdd[RAdd[w0, w1], w2] = One
                 /\ p[1] = RAdd[RAdd[RMul[w0, a[1]], RMul[w1, b[1]]],
                                RMul[w2, c[1]]]
                 /\ p[2] = RAdd[RAdd[RMul[w0, a[2]], RMul[w1, b[2]]],
                                RMul[w2, c[2]]]
                 /\ InClosedPolygon(p, <<a, b, c>>)
                 /\ ValidCell(i) => InClosedPolygon(p, Pts(ring))

\* a point placed in the last, wrapping triangle of a convex cell whose
\* region index differs from its point index
C4_Witness ==
    /\ Sampled
    /\ indexP2C[lastCell + 1] # lastCell
    /\ ValidCell(lastCell)
    /\ indexTri = Len(RingOf(lastCell)) - 1
    /\ uniRand2 # Zero

\* C5 (as claimed): no point is recorded for a cell whose fan triangles have
\* total area zero; the call fails with DegenerateCellError instead.
C5_ZeroAreaRejected ==
    /\ Sampled => SumSeq(areaTri) # Zero
    /\ \A i \in 0..(ii - 1) :
         (booleBounded[i + 1] /\ i < Len(yy))
           => SumSeq(AreaTri(XCell(RingOf(i)), YCell(RingOf(i)),
                             xx[i + 1], yy[i + 1])) # Zero

\* C6 (as claimed): a call whose coordinate counts differ from the number of
\* cells of the tessellation samples no cell, returns nothing and fails with
\* InvalidInputError.
C6_MismatchRejected ==
    ( /\ callForm = "signature"
      /\ Len(xx) # Len(indexP2C) \/ Len(yy) # Len(indexP2C) )
    => /\ lastCell = -1
       /\ pc # "done"
       /\ err \in {"none", "InvalidInputError"}

\* the unit square around (1/2,1/2) sampled with draws 0.3, 0.25, 0.5
SquareScenario ==
    /\ Sampled
    /\ Pts(RingOf(lastCell)) =
         << <<Zero, Zero>>, <<One, Zero>>, <<One, One>>, <<Zero, One>> >>
    /\ Apex(lastCell) = << <<1, 2>>, <<1, 2>> >>
    /\ rTri = <<3, 10>>
    /\ uniRand1 = <<1, 4>>
    /\ uniRand2 = <<1, 2>>

\* C7 (as claimed): in the square scenario the triangle CDF is [0.5, 1.0],
\* triangle 0 is selected and the sampled point is (0.375, 0.25).
C7_SquareAsClaimed ==
    SquareScenario =>
      /\ cdfArea = << <<1, 2>>, One >>
      /\ indexTri = 0
      /\ uu[lastCell + 1] = <<3, 8>>
      /\ vv[lastCell + 1] = <<1, 4>>

\* C7 (amended): in the square scenario the four fan triangles have area
\* 0.25 each, the triangle CDF is [0.25, 0.5, 0.75, 1.0], the draw 0.3
\* selects triangle 1 spanning apex,(1,0),(1,1), and the sampled point is
\* (0.75, 0.5).
C7_SquareAmended ==
    SquareScenario =>
      /\ areaTri = << <<1, 4>>, <<1, 4>>, <<1, 4>>, <<1, 4>> >>
      /\ cdfArea = << <<1, 4>>, <<1, 2>>, <<3, 4>>, One >>
      /\ indexTri = 1
      /\ uu[lastCell + 1] = <<3, 4>>
      /\ vv[lastCell + 1] = <<1, 2>>

\* the square scenario has been sampled and the call has returned
C7_Witness == SquareScenario /\ pc = "done"

\* C8 (as claimed): the call funVoronoiUniform(voronoiData) of the
\* simulation loop does not fail.
C8_HarnessCallReturns == callForm = "harness" => pc # "error"

\* C9: the selected index k is in 0..m-1, so that k and k+1 mod m index
\* vertices of the ring, and no smaller index has a CDF value reaching the
\* draw r; when the total area is not zero (the CDF, cumulative sum over
\* total, is then defined and ends at 1) k itself reaches r, so k is the
\* smallest index with CDF[k] >= r: a draw equal to a cumulative value
\* selects the first index reaching it, and zero-area triangles in the ring
\* do not disturb the selection.
C9_SmallestIndexReachingDraw ==
    Sampled =>
      LET m == Len(areaTri)
          total == SumSeq(areaTri)
          Reaches(j) == LET lhs == RMul[rTri, total]
                            rhs == SumTo[areaTri, j + 1]
                        IN  total # Zero /\ lhs[1] * rhs[2] <= rhs[1] * lhs[2]
      IN  /\ m = Len(RingOf(lastCell))
          /\ Len(cdfArea) = m
          /\ indexTri \in 0..(m - 1)
          /\ (indexTri + 1) % m \in 0..(m - 1)
          /\ \A j \in 0..(indexTri - 1) : ~Reaches(j)
          /\ total # Zero =>
               /\ \A j \in 1..m : RMul[cdfArea[j], total] = SumTo[areaTri, j]
               /\ cdfArea[m] = One
               /\ Reaches(indexTri)

\* a draw equal to the first cumulative value of a ring whose first triangle
\* has area zero
C9_Witness ==
    /\ Sampled
    /\ SumSeq(areaTri) # Zero
    /\ areaTri[1] = Zero
    /\ rTri = Zero
    /\ indexTri = 0

\* the ring of point i traversed the other way round
Reversed(q) == [k \in 1..Len(q) |-> q[Len(q) + 1 - k]]

\* C10 (as claimed): for a convex cell around its generating point the fan
\* areas sum to areaPoly as funCentroid computes it.
C10_SumIsHarnessArea ==
    (Sampled /\ ValidCell(lastCell)) =>
      SumSeq(areaTri) = Shoelace(XCell(RingOf(lastCell)),
                                 YCell(RingOf(lastCell)))

\* C10 (amended): the fan areas are non-negative and the same for the ring
\* traversed in either direction, and for a convex cell around its
\* generating point they sum to the absolute value of funCentroid's areaPoly.
C10_SumIsAbsHarnessArea ==
    Sampled =>
      LET i == lastCell
          m == Len(areaTri)
          rev == Reversed(RingOf(lastCell))
          areaRev == AreaTri(XCell(rev), YCell(rev), xx[i + 1], yy[i + 1])
      IN  /\ m = Len(RingOf(i))
          /\ \A k \in 1..m : areaTri[k][1] >= 0 /\ areaTri[k][2] > 0
          /\ \A j \in 0..(m - 1) :
               areaRev[j + 1] = areaTri[((2 * m - 2 - j) % m) + 1]
          /\ ValidCell(i) =>
               SumSeq(areaTri) = RAbs[Shoelace(XCell(RingOf(i)),
                                               YCell(RingOf(i)))]

\* a convex cell around its generating point whose ring runs clockwise
C10_Witness ==
    /\ Sampled
    /\ ValidCell(lastCell)
    /\ Shoelace(XCell(RingOf(lastCell)), YCell(RingOf(lastCell)))[1] < 0
    /\ SumSeq(areaTri) # Zero

====
